---- MODULE Spec2Model ----
(***************************************************************************)
(* Model of Dataset/backend/main.py: the FastAPI article service backed by *)
(* a MariaDB table.  The server-side table (articles), the per-request     *)
(* connection/cursor scope of get_db, and the handlers of every route are  *)
(* modelled; the three export encodings are computed from the fetched rows *)
(* the way pandas / datasets compute them.                                 *)
(***************************************************************************)
EXTENDS Integers, Sequences, FiniteSets, TLC

\* Number of requests in flight at once, each on its own connection.
NReq == 2

\* Largest id the table hands out before the clients stop creating.
MaxId == 2

\* url VARCHAR(255)
UrlMax == 255

Req == 1..NReq

\* ------------------------------------------------------------------------
\* Data model
\* ------------------------------------------------------------------------

\* The six bias flags, in declaration order.
Flags ==
  <<"bias_religious", "bias_cultural", "bias_language",
    "bias_gender", "bias_pro_gov", "bias_anti_gov">>

FlagSet == {Flags[i] : i \in 1..Len(Flags)}

\* Column order of the articles table (order of SELECT * and of the dict rows).
Columns == <<"id", "url", "news_article", "summary">> \o Flags

RECURSIVE Repeat(_, _)
Repeat(s, n) == IF n = 0 THEN "" ELSE s \o Repeat(s, n - 1)

\* A url one character longer than the column admits.
LongUrl == Repeat("x", UrlMax + 1)

\* JSON bodies sent to POST /articles/: each flag is "absent", "true" or "false".
NoFlags == [f \in FlagSet |-> "absent"]

Body(url, flags) ==
  [url |-> url, news_article |-> "text", summary |-> "sum", flags |-> flags]

Bodies ==
  { Body("http://a", NoFlags),
    Body("http://b", [NoFlags EXCEPT !["bias_gender"] = "true",
                                     !["bias_religious"] = "false"]),
    Body(LongUrl, NoFlags) }

NoBody == Body("", NoFlags)

\* class ArticleCreate: the validated payload, omitted flags defaulting to False.
ArticleCreateDefaultTrue(body) ==
  [url |-> body.url, news_article |-> body.news_article, summary |-> body.summary,
   flags |-> [f \in FlagSet |-> body.flags[f] # "false"]]

ArticleCreate(body) ==
  [url |-> body.url, news_article |-> body.news_article, summary |-> body.summary,
   flags |-> [f \in FlagSet |-> body.flags[f] = "true"]]

\* class ArticleResponse(ArticleCreate): id plus the model_dump() of the article.
ArticleResponse(new_id, article) ==
  [id |-> new_id, url |-> article.url, news_article |-> article.news_article,
   summary |-> article.summary, flags |-> article.flags]

\* A Python bool bound to a BOOLEAN (TINYINT(1)) column is stored as 0 / 1.
BoolToTiny(b) == IF b THEN 1 ELSE 0

\* The `values` tuple of create_article as the row the INSERT writes.
InsertRow(id, article) ==
  [id |-> id, url |-> article.url, news_article |-> article.news_article,
   summary |-> article.summary,
   flags |-> [f \in FlagSet |-> BoolToTiny(article.flags[f])]]

\* ------------------------------------------------------------------------
\* The store: SELECT over the committed rows
\* ------------------------------------------------------------------------

Min(S) == CHOOSE x \in S : \A y \in S : x <= y

RowWithId(S, i) == CHOOSE row \in S : row.id = i

\* SELECT * FROM articles: the committed rows in primary-key order.
RECURSIVE SelectAll(_)
SelectAll(S) ==
  IF S = {} THEN <<>>
  ELSE LET first == RowWithId(S, Min({row.id : row \in S}))
       IN  <<first>> \o SelectAll(S \ {first})

\* SELECT * FROM articles LIMIT limit OFFSET skip
SelectPage(S, skip, limit) ==
  LET all == SelectAll(S)
      last == IF skip + limit < Len(all) THEN skip + limit ELSE Len(all)
  IN  SubSeq(all, skip + 1, last)

\* response_model=list[ArticleResponse]: each fetched dict validated into the model.
RowToResponse(row) ==
  [id |-> row.id, url |-> row.url, news_article |-> row.news_article,
   summary |-> row.summary, flags |-> [f \in FlagSet |-> row.flags[f] # 0]]

\* ------------------------------------------------------------------------
\* Export formatter (pandas DataFrame, to_csv, to_parquet, datasets.Dataset)
\* ------------------------------------------------------------------------

\* The value a dict-cursor row holds under a column name.
Value(row, c) ==
  CASE c = "id" -> row.id
    [] c = "url" -> row.url
    [] c = "news_article" -> row.news_article
    [] c = "summary" -> row.summary
    [] OTHER -> row.flags[c]

\* dtype pandas infers for a column of fetched values (Python ints / strs).
Dtype(c) == IF c = "id" \/ c \in FlagSet THEN "int64" ELSE "object"

Range(s) == {s[i] : i \in 1..Len(s)}

\* pd.DataFrame(articles): the columns are taken from the rows' keys, so a
\* list of no rows gives a frame of no columns.
DataFrame(articles) ==
  IF Len(articles) = 0
  THEN [columns |-> <<>>, col |-> <<>>]
  ELSE [columns |-> Columns,
        col |-> [c \in Range(Columns) |->
                  [dtype |-> Dtype(c),
                   values |-> [i \in 1..Len(articles) |-> Value(articles[i], c)]]]]

NumRows(df) ==
  IF Len(df.columns) = 0 THEN 0 ELSE Len(df.col[df.columns[1]].values)

\* How to_csv writes one value of a column (no value of the model needs quoting).
CsvField(dtype, v) ==
  CASE dtype = "int64" -> ToString(v)
    [] dtype = "bool" -> IF v THEN "True" ELSE "False"
    [] OTHER -> v

\* df.to_csv(stream, index=False): the header row, then one row per record.
ToCsvNoHeader(df) ==
  [i \in 1..NumRows(df) |->
    [j \in 1..Len(df.columns) |->
      CsvField(df.col[df.columns[j]].dtype, df.col[df.columns[j]].values[i])]]

ToCsv(df) ==
  <<df.columns>> \o
  [i \in 1..NumRows(df) |->
    [j \in 1..Len(df.columns) |->
      CsvField(df.col[df.columns[j]].dtype, df.col[df.columns[j]].values[i])]]

\* df.to_parquet(stream, index=False): the schema follows the frame's dtypes.
ToParquet(df) ==
  [schema |-> [j \in 1..Len(df.columns) |->
                <<df.columns[j], df.col[df.columns[j]].dtype>>],
   num_rows |-> NumRows(df),
   col |-> [c \in Range(df.columns) |-> df.col[c].values]]

\* The loop of export_articles_dataset: an int64 column whose values all lie in
\* {0, 1} is cast to bool.
AsTypeBool(column) ==
  IF column.dtype = "int64" /\ Range(column.values) \subseteq {0, 1}
  THEN [dtype |-> "bool",
        values |-> [i \in 1..Len(column.values) |-> column.values[i] # 0]]
  ELSE column

\* The Python type of the values Dataset.to_dict() returns for a column.
PyType(dtype) ==
  CASE dtype = "int64" -> "int" [] dtype = "bool" -> "bool" [] OTHER -> "str"

\* Dataset.from_pandas(df).to_dict(): column name -> list of values.
ToDict(df) ==
  [c \in Range(df.columns) |->
    [i \in 1..NumRows(df) |->
      [t |-> PyType(df.col[c].dtype), v |-> df.col[c].values[i]]]]

\* Body of export_articles_dataset after the fetch.
DatasetExport(df) ==
  IF NumRows(df) = 0
  THEN [data |-> <<>>]
  ELSE ToDict([columns |-> df.columns,
               col |-> [c \in Range(df.columns) |-> AsTypeBool(df.col[c])]])

\* ------------------------------------------------------------------------
\* State
\* ------------------------------------------------------------------------

VARIABLES
  tableExists,  \* the articles table exists on the server
  autoInc,      \* the table's AUTO_INCREMENT counter
  rows,         \* the committed rows of articles
  assigned,     \* every id an INSERT was given so far
  issued,       \* every id a create response returned so far
  req,          \* the requests in flight, one per connection
  last          \* the request that ended most recently, as it ended

vars == <<tableExists, autoInc, rows, assigned, issued, req, last>>

store == <<tableExists, autoInc, rows, assigned>>

\* (skip, limit) of GET /articles/: the defaults and one explicit page.
Pages == {<<0, 100>>, <<1, 1>>}

NoResp == [status |-> 0, detail |-> "", out |-> <<>>]

\* What the client receives when an exception escapes the handler or get_db.
InternalServerError == [status |-> 500, detail |-> "Internal Server Error", out |-> <<>>]

\* raise HTTPException(status_code=500, detail=...)
HTTPException(status, detail) == [status |-> status, detail |-> detail, out |-> <<>>]

Ok(out) == [status |-> 200, detail |-> "", out |-> out]

\* A request: its inputs, what get_db holds for it, and its response.
\* `unrolled` is what its transaction still held when the response was decided.
Request(kind, body, page) ==
  [pc |-> "handler", kind |-> kind, body |-> body, page |-> page,
   fault |-> "none", conn |-> "none", cursor |-> "unbound", lastrowid |-> 0,
   txn |-> {}, unrolled |-> {}, resp |-> NoResp, relErr |-> FALSE]

Idle == [Request("none", NoBody, <<0, 100>>) EXCEPT !.pc = "idle"]

Init ==
  /\ tableExists \in BOOLEAN
  /\ autoInc = 1
  /\ rows = {}
  /\ assigned = {}
  /\ issued = {}
  /\ req = [r \in Req |-> Idle]
  /\ last = Idle

\* ------------------------------------------------------------------------
\* get_db: connection and cursor scoped to one request
\* ------------------------------------------------------------------------

\* Outcomes of mysql.connector.connect / is_connected / connection.cursor.
ConnectOutcomes ==
  {"ok", "connect_error", "not_connected", "cursor_error", "cursor_lost"}

\* What the environment does to a request's first statement: get_db fails in
\* one of its ways, or the connection is lost during the statement, or neither.
Outcomes == ConnectOutcomes \cup {"lost"}

\* get_db up to its yield (get_db_connection, then connection.cursor).
get_db(q, outcome) ==
  CASE outcome = "connect_error" ->
         \* connect raises Error: HTTPException out of get_db_connection
         [q EXCEPT !.pc = "finally", !.fault = outcome,
                   !.resp = HTTPException(500, "Database connection error")]
    [] outcome = "not_connected" ->
         \* is_connected() is False: get_db_connection returns None and
         \* connection.cursor raises AttributeError
         [q EXCEPT !.pc = "finally", !.fault = outcome, !.resp = InternalServerError]
    [] outcome = "cursor_error" ->
         \* connection.cursor raises, the connection stays up
         [q EXCEPT !.pc = "finally", !.fault = outcome, !.conn = "open",
                   !.resp = InternalServerError]
    [] outcome = "cursor_lost" ->
         \* connection.cursor raises because the connection went away
         [q EXCEPT !.pc = "finally", !.fault = outcome, !.conn = "lost",
                   !.resp = InternalServerError]
    [] OTHER -> [q EXCEPT !.conn = "open", !.cursor = "open"]

\* The finally block of get_db.
get_db_finally(q) ==
  IF q.conn = "open"
  THEN IF q.cursor = "unbound"
       THEN \* cursor.close() on the unbound local raises; close() is not reached
            [q EXCEPT !.pc = "done", !.relErr = TRUE]
       ELSE \* closing the connection discards an open transaction
            [q EXCEPT !.pc = "done", !.cursor = "closed", !.conn = "closed",
                      !.txn = {}]
  ELSE [q EXCEPT !.pc = "done"]

\* A statement fails because the connection dropped: the server discards the
\* session's transaction; conn.rollback() in an except block raises again and
\* the exception escapes the handler.
Dropped(q) ==
  [q EXCEPT !.pc = "finally", !.fault = "lost", !.conn = "lost", !.txn = {},
            !.resp = InternalServerError]

\* conn.rollback() on a live connection: the pending writes are dropped.
RollbackKeeps(txn) == txn

Rollback(txn) == {}

\* `except Error as e: conn.rollback(); raise HTTPException(500, detail)`
ExceptError(q, detail) ==
  [q EXCEPT !.pc = "finally", !.fault = "rejected", !.txn = Rollback(q.txn),
            !.unrolled = Rollback(q.txn), !.resp = HTTPException(500, detail)]

\* Connection r is free and every connection below it is busy.
Free(r) ==
  /\ req[r].pc = "idle"
  /\ \A s \in Req : s < r => req[s].pc # "idle"

\* The request on connection r ends as q: its finally block runs and the
\* connection slot is free again.
End(r, q) ==
  /\ last' = get_db_finally(q)
  /\ req' = [req EXCEPT ![r] = Idle]

\* ------------------------------------------------------------------------
\* POST /articles/
\* ------------------------------------------------------------------------

\* id INT AUTO_INCREMENT PRIMARY KEY: the id an INSERT is given.
AssignIdMaxPlusOne(counter, committed) ==
  IF committed = {} THEN 1
  ELSE 1 + CHOOSE m \in {row.id : row \in committed} :
             \A row \in committed : row.id <= m

AssignId(counter, committed) == counter

\* cursor.lastrowid: the id generated by this cursor's own INSERT.
LastRowIdOfTable(q) == autoInc - 1

LastRowId(q) == q.lastrowid

\* The store rejects the INSERT: no table, or (strict SQL mode, the server's
\* default) a url longer than the column.
InsertRejected(article) == ~tableExists \/ Len(article.url) > UrlMax

\* get_db, then cursor.execute(query, values) of create_article.
create_article_execute(r) ==
  /\ Free(r)
  /\ \E body \in Bodies, outcome \in Outcomes :
       LET q == get_db(Request("create", body, <<0, 100>>), outcome)
           article == ArticleCreate(body)
           id == AssignId(autoInc, rows)
       IN  IF outcome \in ConnectOutcomes \ {"ok"}
           THEN End(r, q) /\ UNCHANGED <<autoInc, assigned>>
           ELSE IF outcome = "lost"
           THEN End(r, Dropped(q)) /\ UNCHANGED <<autoInc, assigned>>
           ELSE IF InsertRejected(article)
           THEN End(r, ExceptError(q, "Database error"))
                /\ UNCHANGED <<autoInc, assigned>>
           ELSE /\ autoInc <= MaxId
                /\ autoInc' = id + 1
                /\ assigned' = assigned \cup {id}
                /\ req' = [req EXCEPT ![r] =
                     [q EXCEPT !.pc = "commit", !.lastrowid = id,
                               !.txn = {InsertRow(id, article)}]]
                /\ UNCHANGED last
  /\ UNCHANGED <<tableExists, rows, issued>>

\* conn.commit(); new_id = cursor.lastrowid; return ArticleResponse(...)
create_article_commit(r) ==
  /\ req[r].pc = "commit"
  /\ \E outcome \in {"ok", "rejected", "lost"} :
       LET q == req[r] IN
       CASE outcome = "lost" ->
              End(r, Dropped(q)) /\ UNCHANGED <<rows, issued>>
         [] outcome = "rejected" ->
              \* the server refuses the COMMIT; the connection is alive
              End(r, ExceptError(q, "Database error")) /\ UNCHANGED <<rows, issued>>
         [] OTHER ->
              /\ rows' = rows \cup q.txn
              /\ issued' = issued \cup {LastRowId(q)}
              /\ End(r, [q EXCEPT !.pc = "finally", !.txn = {},
                           !.resp = Ok(ArticleResponse(LastRowId(q),
                                         ArticleCreate(q.body)))])
  /\ UNCHANGED <<tableExists, autoInc, assigned>>

\* ------------------------------------------------------------------------
\* POST /initialize-database
\* ------------------------------------------------------------------------

\* cursor.fetchone() after SHOW TABLES LIKE 'articles'
ShowTablesLike(exists) == IF exists THEN <<"articles">> ELSE <<>>

\* `if cursor.fetchone():`
AlreadyExistsNever(fetched) == FALSE

AlreadyExists(fetched) == fetched # <<>>

\* get_db, then the existence check of initialize_database.
initialize_database_check(r) ==
  /\ Free(r)
  /\ \E outcome \in Outcomes :
       LET q == get_db(Request("init", NoBody, <<0, 100>>), outcome)
       IN  IF outcome \in ConnectOutcomes \ {"ok"} THEN End(r, q)
           ELSE IF outcome = "lost" THEN End(r, Dropped(q))
           ELSE IF AlreadyExists(ShowTablesLike(tableExists))
           THEN End(r, [q EXCEPT !.pc = "finally",
                          !.resp = Ok("Table 'articles' already exists.")])
           ELSE /\ req' = [req EXCEPT ![r] = [q EXCEPT !.pc = "createtable"]]
                /\ UNCHANGED last
  /\ UNCHANGED <<store, issued>>

\* cursor.execute(create_table_query); conn.commit().  CREATE TABLE commits
\* implicitly, so a connection lost at conn.commit() leaves the table created.
initialize_database_create(r) ==
  /\ req[r].pc = "createtable"
  /\ \E outcome \in {"ok", "lost", "lost_at_commit"} :
       LET q == req[r] IN
       CASE outcome = "lost" ->
              End(r, Dropped(q)) /\ UNCHANGED store
         [] tableExists ->
              \* the table is there by now: the statement raises, except Error
              End(r, ExceptError(q, "Database operation failed")) /\ UNCHANGED store
         [] OTHER ->
              /\ tableExists' = TRUE
              /\ autoInc' = 1
              /\ rows' = {}
              /\ UNCHANGED assigned
              /\ End(r, IF outcome = "lost_at_commit" THEN Dropped(q)
                        ELSE [q EXCEPT !.pc = "finally",
                                !.resp = Ok("Table 'articles' created successfully.")])
  /\ UNCHANGED issued

\* ------------------------------------------------------------------------
\* GET /health, GET /articles/ and the three exports
\* ------------------------------------------------------------------------

health_check(r) ==
  /\ Free(r)
  /\ \E outcome \in Outcomes :
       LET q == get_db(Request("health", NoBody, <<0, 100>>), outcome)
       IN  IF outcome \in ConnectOutcomes \ {"ok"} THEN End(r, q)
           ELSE IF outcome = "lost"
           THEN \* except Error: reported, not raised
                End(r, [q EXCEPT !.pc = "finally", !.fault = "lost", !.conn = "lost",
                          !.resp = Ok([status |-> "error", db_initialized |-> FALSE])])
           ELSE End(r, [q EXCEPT !.pc = "finally",
                          !.resp = Ok([status |-> "ok",
                                       db_initialized |->
                                         ShowTablesLike(tableExists) # <<>>])])
  /\ UNCHANGED <<store, issued>>

\* A handler that runs one SELECT with no except clause: a lost connection or
\* a missing table raises out of the handler; otherwise the response is
\* built from the fetched rows.
Select(r, kind, page, out) ==
  /\ Free(r)
  /\ \E outcome \in Outcomes :
       LET q == get_db(Request(kind, NoBody, page), outcome)
       IN  IF outcome \in ConnectOutcomes \ {"ok"} THEN End(r, q)
           ELSE IF outcome = "lost" THEN End(r, Dropped(q))
           ELSE IF ~tableExists
           THEN End(r, [q EXCEPT !.pc = "finally", !.fault = "rejected",
                          !.resp = InternalServerError])
           ELSE End(r, [q EXCEPT !.pc = "finally", !.resp = Ok(out)])
  /\ UNCHANGED <<store, issued>>

read_articles(r) ==
  \E page \in Pages :
    Select(r, "list", page,
           LET fetched == SelectPage(rows, page[1], page[2])
           IN  [i \in 1..Len(fetched) |-> RowToResponse(fetched[i])])

\* get_articles_as_df: SELECT * FROM articles into a DataFrame
get_articles_as_df == DataFrame(SelectAll(rows))

export_articles_csv(r) ==
  Select(r, "csv", <<0, 100>>, ToCsv(get_articles_as_df))

export_articles_parquet(r) ==
  Select(r, "parquet", <<0, 100>>, ToParquet(get_articles_as_df))

export_articles_dataset(r) ==
  Select(r, "dataset", <<0, 100>>, DatasetExport(get_articles_as_df))

\* ------------------------------------------------------------------------

Next ==
  \E r \in Req :
    \/ create_article_execute(r)
    \/ create_article_commit(r)
    \/ initialize_database_check(r)
    \/ initialize_database_create(r)
    \/ health_check(r)
    \/ read_articles(r)
    \/ export_articles_csv(r)
    \/ export_articles_parquet(r)
    \/ export_articles_dataset(r)

Spec == Init /\ [][Next]_vars

\* One request at a time: every request runs on the first connection, so none
\* starts while another is in flight.
NextSeq ==
  \/ create_article_execute(1)
  \/ create_article_commit(1)
  \/ initialize_database_check(1)
  \/ initialize_database_create(1)
  \/ health_check(1)
  \/ read_articles(1)
  \/ export_articles_csv(1)
  \/ export_articles_parquet(1)
  \/ export_articles_dataset(1)

SpecSeq == Init /\ [][NextSeq]_vars

\* ------------------------------------------------------------------------
\* Properties
\* ------------------------------------------------------------------------

\* A request ended in this step.
Ended == last' # last

CreateOk(q) == q.kind = "create" /\ q.resp.status = 200

ExportOk(q, kind) == q.kind = kind /\ q.resp.status = 200

\* C1: every id a successful create returns was never returned before, and the
\* id an INSERT is given is strictly greater than every id given before it,
\* whatever was rolled back in between.
C1_IdsNeverReused ==
  [][ \A r \in Req :
        /\ (req[r].pc = "idle" /\ req'[r].pc = "commit") =>
             \A i \in assigned : req'[r].lastrowid > i
        /\ (req[r].pc = "commit" /\ req'[r].pc = "idle" /\ CreateOk(last')) =>
             /\ last'.resp.out.id \notin issued
             /\ last'.resp.out.id \in assigned ]_vars

\* An id was handed out and rolled back, and a later create returned a larger one.
C1_Witness ==
  /\ CreateOk(last)
  /\ \A r \in Req : req[r].pc = "idle"
  /\ \E i \in assigned : i < last.resp.out.id /\ i \notin issued

\* C2: when a request has ended, on whatever path, its connection and cursor
\* are released and the release itself raised nothing.
C2_AlwaysReleased ==
  last.pc = "done" =>
    /\ ~last.relErr
    /\ last.conn # "open"
    /\ last.conn = "closed" => last.cursor = "closed"

\* C3: over a non-empty table each export renders every bias flag as a
\* boolean, never as a raw 0 or 1.
C3_FlagsBoolean ==
  /\ (ExportOk(last, "csv") /\ Len(last.resp.out) > 1) =>
       \A i \in 2..Len(last.resp.out), j \in 1..Len(last.resp.out[1]) :
         last.resp.out[1][j] \in FlagSet => last.resp.out[i][j] \notin {"0", "1"}
  /\ (ExportOk(last, "parquet") /\ last.resp.out.num_rows > 0) =>
       \A j \in 1..Len(last.resp.out.schema) :
         last.resp.out.schema[j][1] \in FlagSet => last.resp.out.schema[j][2] = "bool"
  /\ (ExportOk(last, "dataset") /\ "id" \in DOMAIN last.resp.out) =>
       \A f \in FlagSet : \A i \in 1..Len(last.resp.out[f]) :
         last.resp.out[f][i].t = "bool"

\* C4: over an existing table of no rows the csv export is exactly the header
\* row of the ten column names, the dataset export is {"data": []} and the
\* parquet export has zero rows.
C4_EmptyTableExports ==
  [][ (Ended /\ tableExists /\ rows = {}) =>
        /\ last'.kind \in {"csv", "parquet", "dataset"} =>
             (last'.fault = "none" => last'.resp.status = 200)
        /\ ExportOk(last', "csv") => last'.resp.out = <<Columns>>
        /\ ExportOk(last', "dataset") => last'.resp.out = [data |-> <<>>]
        /\ ExportOk(last', "parquet") => last'.resp.out.num_rows = 0 ]_vars

\* C5: after N successful creates the csv export has N + 1 rows and every
\* column of the dataset export has N values.
C5_ExportRowCount ==
  [][ Ended =>
        /\ ExportOk(last', "csv") =>
             Len(last'.resp.out) = Cardinality(issued) + 1
        /\ ExportOk(last', "dataset") =>
             \A c \in DOMAIN last'.resp.out :
               Len(last'.resp.out[c]) = Cardinality(issued) ]_vars

\* A csv export of header plus two rows after two successful creates.
C5_Witness ==
  /\ ExportOk(last, "csv")
  /\ Cardinality(issued) = 2
  /\ Len(last.resp.out) = 3

\* C6: a create that fails because no connection could be established or the
\* store rejected the write ends with status 500, nothing of it left
\* unrolled when the error was raised, and the stored rows as they were.
C6_FailedCreateRolledBack ==
  [][ (Ended /\ last'.kind = "create"
         /\ last'.fault \in {"connect_error", "not_connected", "rejected"}) =>
        /\ last'.resp.status = 500
        /\ last'.unrolled = {}
        /\ rows' = rows
        /\ \A row \in rows' : row.id # last'.lastrowid ]_vars

\* A create whose INSERT went through and whose COMMIT the store rejected.
C6_Witness ==
  /\ last.kind = "create"
  /\ last.fault = "rejected"
  /\ last.lastrowid # 0
  /\ last.resp.status = 500
  /\ rows # {}

\* C7: with one request at a time and the store reachable, initialize-database
\* never errors, leaves the table existing and every row as it was, and right
\* after a successful initialize-database it answers that the table exists.
C7_InitIdempotent ==
  [][ (Ended /\ last'.kind = "init" /\ last'.fault \in {"none", "rejected"}) =>
        /\ last'.resp.status = 200
        /\ tableExists'
        /\ rows' = rows
        /\ (last.kind = "init" /\ last.resp.status = 200) =>
             /\ tableExists
             /\ last'.resp.out = "Table 'articles' already exists." ]_vars

\* initialize-database answered "already exists" over a table that holds rows.
C7_Witness ==
  /\ last.kind = "init"
  /\ last.resp.status = 200
  /\ last.resp.out = "Table 'articles' already exists."
  /\ rows # {}

\* C8: in the record a create returns and in the row it stored, every omitted
\* flag is false and every supplied field has the supplied value.
C8_OmittedFlagsFalse ==
  CreateOk(last) =>
    LET sent == last.body
        got == last.resp.out
    IN  /\ got.url = sent.url
        /\ got.news_article = sent.news_article
        /\ got.summary = sent.summary
        /\ \A f \in FlagSet : got.flags[f] = (sent.flags[f] = "true")
        /\ \E row \in rows :
             /\ row.id = got.id
             /\ row.url = sent.url
             /\ row.news_article = sent.news_article
             /\ row.summary = sent.summary
             /\ \A f \in FlagSet :
                  row.flags[f] = IF sent.flags[f] = "true" THEN 1 ELSE 0

\* A create that supplied one flag true, one false and omitted the rest.
C8_Witness ==
  /\ CreateOk(last)
  /\ last.body.flags["bias_gender"] = "true"
  /\ last.body.flags["bias_religious"] = "false"
  /\ last.body.flags["bias_cultural"] = "absent"

\* C9: the id a create returns is the id of the row holding that request's
\* own payload, however the creates interleave.
C9_ReturnedIdIsOwnRow ==
  CreateOk(last) =>
    InsertRow(last.resp.out.id, ArticleCreate(last.body)) \in rows

\* Two creates overlapped: the one that inserted first committed last, and
\* the other stored a different payload.
C9_Witness ==
  /\ CreateOk(last)
  /\ last.resp.out.id = 1
  /\ \E row \in rows : row.id = 2 /\ row.url # last.body.url

\* C10: over a non-empty table the dataset export returns the id column as
\* the stored integer ids.
C10_DatasetIdsInteger ==
  (ExportOk(last, "dataset") /\ "id" \in DOMAIN last.resp.out) =>
    \A i \in 1..Len(last.resp.out["id"]) :
      /\ last.resp.out["id"][i].t = "int"
      /\ \E row \in rows : row.id = last.resp.out["id"][i].v

====
